---- MODULE Spec2Model ----
(***************************************************************************)
(* Model of the dev_assistant pipeline: the interactive driver             *)
(* (src/main.py), the prompt templates (src/prompts.py) and the LLM        *)
(* gateway (src/openai_api_handler.py).                                    *)
(*                                                                         *)
(* Representation.  A text is a sequence of tokens.  A token is a string   *)
(* that is either one whitespace character (" " or "\n") or a chunk of     *)
(* non-whitespace text that the program never looks inside.  A template is *)
(* a sequence of pieces, each a literal chunk or a named placeholder.      *)
(***************************************************************************)
EXTENDS Integers, Sequences, FiniteSets, TLC

None == "None"

\* ------------------------------------------------------------------ bounds
MaxRetries == 2
MaxContentLen == 2

\* ------------------------------------------------------------------- texts
WS == {" ", "\n"}

RECURSIVE lstrip(_)
lstrip(t) ==
  IF t = <<>> THEN <<>>
  ELSE IF Head(t) \in WS THEN lstrip(Tail(t)) ELSE t

RECURSIVE rstrip(_)
rstrip(t) ==
  IF t = <<>> THEN <<>>
  ELSE IF t[Len(t)] \in WS THEN rstrip(SubSeq(t, 1, Len(t) - 1)) ELSE t

\* str.strip()
strip(t) == rstrip(lstrip(t))

\* all texts of length <= n over the alphabet A
TextsUpTo(A, n) == UNION {[1..k -> A] : k \in 0..n}

\* `needle in text` for a one-token needle
Contains(t, tok) == \E i \in 1..Len(t) : t[i] = tok

RECURSIVE Flatten(_)
Flatten(ss) == IF ss = <<>> THEN <<>> ELSE Head(ss) \o Flatten(Tail(ss))

\* --------------------------------------------------------------- templates
L(s) == [ph |-> FALSE, s |-> s]
P(s) == [ph |-> TRUE, s |-> s]

Placeholders(tpl) == {tpl[i].s : i \in {j \in 1..Len(tpl) : tpl[j].ph}}

\* The outcome of a str.format call: the text, or the KeyError it raised.
Ok(t) == [err |-> "", text |-> t]
Raised(e) == [err |-> e, text |-> <<>>]

\* str.format with keyword arguments ctx: one pass over the template; a placeholder whose name
\* is not a key of ctx raises KeyError; substituted values are not rescanned.
FormatLenient(tpl, ctx) ==
  Ok(Flatten([i \in 1..Len(tpl) |->
                IF tpl[i].ph
                THEN (IF tpl[i].s \in DOMAIN ctx THEN ctx[tpl[i].s] ELSE <<>>)
                ELSE <<tpl[i].s>>]))

Format(tpl, ctx) ==
  IF Placeholders(tpl) \subseteq DOMAIN ctx
  THEN Ok(Flatten([i \in 1..Len(tpl) |->
                     IF tpl[i].ph THEN ctx[tpl[i].s] ELSE <<tpl[i].s>>]))
  ELSE Raised("KeyError")

ROLE_PROMPT == <<L("Role: You are a professional"), L(" "), P("role"), L(".")>>

PROJECT_STRUCTURE_PROMPT ==
  <<L("Project structure:"), L("\n"), P("project_structure")>>

PROJECT_FILES_PROMPT == <<L("Project files:"), L("\n"), P("project_files")>>

STANDARD_INFORMATION ==
  <<P("ROLE_PROMPT"), L("\n"), P("PROJECT_STRUCTURE_PROMPT"), L("\n"),
    P("PROJECT_FILES_PROMPT")>>

STANDARD_NOTES == <<"Notes:", "\n", "- Respond concisely and directly ...">>

FEATURE_IMPLEMENTATION_PROMPT ==
  <<P("STANDARD_INFORMATION"), L("\n"), L("Feature description:"), L("\n"),
    P("feature_description"), L("\n"), L("\n"), L("Task: (feature)"), L("\n"),
    L("\n"), P("STANDARD_NOTES"), L("\n"), L("- Provide brief comments ...")>>

DEBUGGING_PROMPT ==
  <<P("STANDARD_INFORMATION"), L("\n"), L("Error:"), L("\n"), P("error"),
    L("\n"), L("\n"), L("Task: (debugging)"), L("\n"), L("\n"),
    P("STANDARD_NOTES"), L("\n"), L("- Clearly explain the cause ...")>>

README_GENERATION_PROMPT ==
  <<P("STANDARD_INFORMATION"), L("\n"), L("\n"), L("Task: (readme)"), L("\n"),
    L("\n"), P("STANDARD_NOTES"), L("\n"), L("- Follow the project's style ...")>>

\* dict insertion order of ASSISTANCE_TYPES
ASSISTANCE_KEYS == <<"feature_implementation", "debugging", "readme_generation">>

ASSISTANCE_TYPES ==
  [k \in {"feature_implementation", "debugging", "readme_generation"} |->
     CASE k = "feature_implementation" -> FEATURE_IMPLEMENTATION_PROMPT
       [] k = "debugging" -> DEBUGGING_PROMPT
       [] k = "readme_generation" -> README_GENERATION_PROMPT]

Templates ==
  {FEATURE_IMPLEMENTATION_PROMPT, DEBUGGING_PROMPT, README_GENERATION_PROMPT}

ROLES ==
  <<"Web Developer", "Data Scientist/Machine Learning Engineer",
    "DevOps Engineer", "Python Developer">>

\* PROMPT_PARAMETERS.get(prompt_template, [])
PROMPT_PARAMETERS(tpl) ==
  CASE tpl = FEATURE_IMPLEMENTATION_PROMPT -> <<"feature_description">>
    [] tpl = DEBUGGING_PROMPT -> <<"error">>
    [] tpl = README_GENERATION_PROMPT -> <<>>
    [] OTHER -> <<>>

\* dict literal {**a, **b}: keys of b override keys of a
Merge(a, b) ==
  [k \in DOMAIN a \cup DOMAIN b |-> IF k \in DOMAIN b THEN b[k] ELSE a[k]]

\* build_final_prompt: the pair (system, user), or the KeyError raised by the
\* first str.format call that finds a placeholder without a value.
Built(sys, usr) == [err |-> "", system |-> sys, user |-> usr]
NotBuilt(e) == [err |-> e, system |-> <<>>, user |-> <<>>]

build_final_prompt(role, project_structure, project_files, prompt_template, additional_params) ==
  LET role_prompt_filled == Format(ROLE_PROMPT, [role |-> <<role>>])
      project_structure_prompt_filled ==
        Format(PROJECT_STRUCTURE_PROMPT,
               [project_structure |-> project_structure])
      project_files_prompt_filled ==
        Format(PROJECT_FILES_PROMPT, [project_files |-> project_files])
      standard_info_filled ==
        Format(STANDARD_INFORMATION,
               [PROJECT_STRUCTURE_PROMPT |-> project_structure_prompt_filled.text,
                PROJECT_FILES_PROMPT |-> project_files_prompt_filled.text,
                STANDARD_NOTES |-> STANDARD_NOTES])
      standard_context ==
        [STANDARD_INFORMATION |-> standard_info_filled.text,
         STANDARD_NOTES |-> STANDARD_NOTES]
      combined_context == Merge(standard_context, additional_params)
      final_prompt == Format(prompt_template, combined_context)
  IN IF standard_info_filled.err # "" THEN NotBuilt(standard_info_filled.err)
     ELSE IF final_prompt.err # "" THEN NotBuilt(final_prompt.err)
     ELSE Built(role_prompt_filled.text, final_prompt.text)

\* the markdown code fence (three backquotes)
FENCE == "[fence]"

\* -------------------------------------------------------------- filesystem
\* The project on disk.  A path is an opaque string; the table gives what
\* os.path computes from it: parent directory, base name (as tokens, for the
\* substring tests), the components of its dirname, and the rank of the base
\* name in lexicographic (code point) order.
File(parent, name, toks, parts, rank, lexer, readable, content) == [kind |-> "file", parent |-> parent, name |-> name, toks |-> toks, parts |-> parts, rank |-> rank, lexer |-> lexer, readable |-> readable, content |-> content]
Dir(parent, name, toks, parts, rank) == [kind |-> "dir", parent |-> parent, name |-> name, toks |-> toks, parts |-> parts, rank |-> rank, lexer |-> None, readable |-> TRUE, content |-> <<>>]

FSPaths ==
  {"proj", "proj/.env", "proj/.git", "proj/.git/config", "proj/.git/hooks",
   "proj/.git/hooks/pre.sh", "proj/.ipynb_checkpoints",
   "proj/.ipynb_checkpoints/nb.py", "proj/a.py", "proj/bin.dat",
   "proj/blank.txt", "proj/pkg", "proj/pkg/Makefile", "proj/pkg/__pycache__",
   "proj/pkg/__pycache__/mod.txt", "proj/sub", "proj/sub/c.py"}

\* Ranks follow the code point order of the base names:
\* .env < .git < .ipynb_checkpoints < Makefile < __pycache__ < a.py < bin.dat
\* < blank.txt < c.py < config < hooks < mod.txt < nb.py < pkg < pre.sh < proj
\* < sub
FS ==
  [p \in FSPaths |->
     CASE p = "proj" -> Dir("", "proj", <<"proj">>, <<"">>, 16)
       [] p = "proj/.env" ->
            File("proj", ".env", <<".", "env">>, <<"proj">>, 1, None, TRUE, <<"KEY=1">>)
       [] p = "proj/.git" ->
            Dir("proj", ".git", <<".", "git">>, <<"proj">>, 2)
       [] p = "proj/.git/config" ->
            File("proj/.git", "config", <<"config">>, <<"proj", ".git">>, 10, None, TRUE, <<"[core]">>)
       [] p = "proj/.git/hooks" ->
            Dir("proj/.git", "hooks", <<"hooks">>, <<"proj", ".git">>, 11)
       [] p = "proj/.git/hooks/pre.sh" ->
            File("proj/.git/hooks", "pre.sh", <<"pre", ".", "sh">>, <<"proj", ".git", "hooks">>, 15, "bash", TRUE, <<"exit 0">>)
       [] p = "proj/.ipynb_checkpoints" ->
            Dir("proj", ".ipynb_checkpoints", <<".", "ipynb_checkpoints">>, <<"proj">>, 3)
       [] p = "proj/.ipynb_checkpoints/nb.py" ->
            File("proj/.ipynb_checkpoints", "nb.py", <<"nb", ".", "py">>, <<"proj", ".ipynb_checkpoints">>, 13, "python", TRUE, <<"x = 1">>)
       [] p = "proj/a.py" ->
            File("proj", "a.py", <<"a", ".", "py">>, <<"proj">>, 6, "python", TRUE, <<"import os", "\n">>)
       [] p = "proj/bin.dat" ->
            File("proj", "bin.dat", <<"bin", ".", "dat">>, <<"proj">>, 7, None, FALSE, <<>>)
       [] p = "proj/blank.txt" ->
            File("proj", "blank.txt", <<"blank", ".", "txt">>, <<"proj">>, 8, "text-only", TRUE, <<" ", "\n">>)
       [] p = "proj/pkg" ->
            Dir("proj", "pkg", <<"pkg">>, <<"proj">>, 14)
       [] p = "proj/pkg/Makefile" ->
            File("proj/pkg", "Makefile", <<"Makefile">>, <<"proj", "pkg">>, 4, "makefile", TRUE, <<"all:">>)
       [] p = "proj/pkg/__pycache__" ->
            Dir("proj/pkg", "__pycache__", <<"__pycache__">>, <<"proj", "pkg">>, 5)
       [] p = "proj/pkg/__pycache__/mod.txt" ->
            File("proj/pkg/__pycache__", "mod.txt", <<"mod", ".", "txt">>, <<"proj", "pkg", "__pycache__">>, 12, "text-only", TRUE, <<"cached">>)
       [] p = "proj/sub" ->
            Dir("proj", "sub", <<"sub">>, <<"proj">>, 17)
       [] p = "proj/sub/c.py" ->
            File("proj/sub", "c.py", <<"c", ".", "py">>, <<"proj", "sub">>, 9, "python", TRUE, <<"pass">>)]

isdir(p) == p \in FSPaths /\ FS[p].kind = "dir"
isfile(p) == p \in FSPaths /\ FS[p].kind = "file"
listdir(d) == {p \in FSPaths : FS[p].parent = d}

\* the members of S as a sequence, ascending by base name (descending when rev)
RECURSIVE Ordered(_, _)
Ordered(S, rev) ==
  IF S = {} THEN <<>>
  ELSE LET m == CHOOSE x \in S : \A y \in S :
                  IF rev THEN FS[x].rank >= FS[y].rank ELSE FS[x].rank <= FS[y].rank
       IN <<m>> \o Ordered(S \ {m}, rev)

\* sorted(os.listdir(directory))
sorted_listdir(d) == Ordered(listdir(d), FALSE)

\* os.walk(directory), top-down: the files of a directory, then its
\* subdirectories in turn.  The order of entries within a directory is the
\* order the filesystem enumerates them in (scandir); rev picks one of two.
RECURSIVE get_files_from_directory(_, _)
get_files_from_directory(d, rev) ==
  LET files == Ordered({p \in listdir(d) : FS[p].kind = "file"}, rev)
      dirs == Ordered({p \in listdir(d) : FS[p].kind = "dir"}, rev)
  IN files \o Flatten([i \in 1..Len(dirs) |-> get_files_from_directory(dirs[i], rev)])

\* `pattern in name` on token sequences
IsInfix(pat, t) ==
  \E i \in 0..(Len(t) - Len(pat)) : SubSeq(t, i + 1, i + Len(pat)) = pat

IGNORED_FILE_PATTERNS ==
  <<<<".", "git">>, <<"__pycache__">>, <<".", "idea">>,
    <<".", "ipynb_checkpoints">>, <<".", "env">>,
    <<"environment", ".", "yml">>, <<"final_prompt", ".", "md">>>>

IGNORED_DIRECTORIES == <<".git", "__pycache__", ".idea">>

should_ignore_file(p) ==
  \E i \in 1..Len(IGNORED_FILE_PATTERNS) : IsInfix(IGNORED_FILE_PATTERNS[i], FS[p].toks)

is_in_ignored_directory_parent_only(p) ==
  \E i \in 1..Len(IGNORED_DIRECTORIES) : FS[p].parts[Len(FS[p].parts)] = IGNORED_DIRECTORIES[i]

is_in_ignored_directory(p) ==
  \E i \in 1..Len(IGNORED_DIRECTORIES) : Contains(FS[p].parts, IGNORED_DIRECTORIES[i])

\* the FileRecord appended to file_data
FileRecord(file, content) == [file_name |-> file, code_type |-> FS[file].lexer, content |-> content]

RECURSIVE extract_file_content_aborting(_)
extract_file_content_aborting(files) ==
  IF files = <<>> THEN <<>>
  ELSE LET file == Head(files)
           rest == extract_file_content_aborting(Tail(files))
           content == strip(FS[file].content)
       IN IF should_ignore_file(file) THEN rest
          ELSE IF is_in_ignored_directory(file) THEN rest
          ELSE IF ~FS[file].readable THEN <<>>
          ELSE IF content = <<>> THEN rest
          ELSE <<FileRecord(file, content)>> \o rest

RECURSIVE extract_file_content_keep_empty(_)
extract_file_content_keep_empty(files) ==
  IF files = <<>> THEN <<>>
  ELSE LET file == Head(files)
           rest == extract_file_content_keep_empty(Tail(files))
           content == strip(FS[file].content)
       IN IF should_ignore_file(file) THEN rest
          ELSE IF is_in_ignored_directory(file) THEN rest
          ELSE IF ~FS[file].readable THEN rest
          ELSE <<FileRecord(file, content)>> \o rest

\* extract_file_content: one record per file that is not ignored, can be
\* read and is non-empty after strip(), in list order.
RECURSIVE extract_file_content(_)
extract_file_content(files) ==
  IF files = <<>> THEN <<>>
  ELSE LET file == Head(files)
           rest == extract_file_content(Tail(files))
           content == strip(FS[file].content)
       IN IF should_ignore_file(file) THEN rest
          ELSE IF is_in_ignored_directory(file) THEN rest
          ELSE IF ~FS[file].readable THEN rest
          ELSE IF content = <<>> THEN rest
          ELSE <<FileRecord(file, content)>> \o rest

\* extract_file_content: the files it logs "Could not read file" for
RECURSIVE read_warnings(_)
read_warnings(files) ==
  IF files = <<>> THEN <<>>
  ELSE LET file == Head(files)
           rest == read_warnings(Tail(files))
       IN IF should_ignore_file(file) \/ is_in_ignored_directory(file) THEN rest
          ELSE IF ~FS[file].readable THEN <<file>> \o rest
          ELSE rest

\* get_all_file_contents, lines 309-318: the records rendered as fenced blocks
render_file_contents(file_contents) ==
  Flatten([i \in 1..Len(file_contents) |->
       <<"\n", file_contents[i].file_name, "\n">>
       \o (IF file_contents[i].code_type # None
           THEN <<FENCE, file_contents[i].code_type, "\n">>
           ELSE <<FENCE, "\n">>)
       \o file_contents[i].content
       \o <<"\n", FENCE, "\n">>])

get_all_file_contents(files) == render_file_contents(extract_file_content(files))

\* ----------------------------------------------------------- tree renderer
\* entry.startswith((".", "__pycache__", ".git", ".idea", ".ipynb_checkpoints"))
TreePruned(p) ==
  \/ Head(FS[p].toks) = "."
  \/ Head(FS[p].toks) = "__pycache__"

\* generate_tree_structure: a sequence of lines, each a sequence of tokens
\* The box-drawing connectors are written in ASCII.
RECURSIVE generate_tree_structure(_, _)
generate_tree_structure(directory, prefix) ==
  LET entries == sorted_listdir(directory)
      last(i) == i = Len(entries)
      connector(i) == IF last(i) THEN "\\-- " ELSE "|-- "
      line(i) ==
        IF isfile(entries[i])
        THEN <<prefix \o <<connector(i), FS[entries[i]].name>>>>
        ELSE IF isdir(entries[i]) /\ ~TreePruned(entries[i])
        THEN <<prefix \o <<connector(i), FS[entries[i]].name, "/">>>>
             \o generate_tree_structure(entries[i], prefix \o <<IF last(i) THEN "    " ELSE "|   ">>)
        ELSE <<>>
  IN Flatten([i \in 1..Len(entries) |-> line(i)])

get_tree_structure(root_directory) ==
  <<<<FENCE>>, <<FS[root_directory].name, "/">>>>
  \o generate_tree_structure(root_directory, <<>>)
  \o <<<<FENCE>>>>

\* "\n".join(lines)
RECURSIVE JoinLines(_)
JoinLines(lines) ==
  IF lines = <<>> THEN <<>>
  ELSE IF Len(lines) = 1 THEN Head(lines)
  ELSE Head(lines) \o <<"\n">> \o JoinLines(Tail(lines))

\* ------------------------------------------------------------ operator input
\* A line typed at a numbered menu, as a sequence of characters.
MenuLines ==
  {<<"0">>, <<"1">>, <<"2">>, <<"3">>, <<"4">>, <<"5">>, <<"1", "0">>,
   <<"-", "1">>, <<"+", "3">>, <<" ", "2", " ">>, <<"a">>, <<>>}

Digits == {"0", "1", "2", "3", "4", "5", "6", "7", "8", "9"}

DigitVal(c) ==
  CASE c = "0" -> 0 [] c = "1" -> 1 [] c = "2" -> 2 [] c = "3" -> 3
    [] c = "4" -> 4 [] c = "5" -> 5 [] c = "6" -> 6 [] c = "7" -> 7
    [] c = "8" -> 8 [] c = "9" -> 9

RECURSIVE DecimalVal(_)
DecimalVal(ds) ==
  IF ds = <<>> THEN 0 ELSE 10 * DecimalVal(SubSeq(ds, 1, Len(ds) - 1)) + DigitVal(ds[Len(ds)])

\* get_user_input: input(prompt).strip()
get_user_input(typed) == strip(typed)

\* int(s) on a decimal literal: surrounding whitespace, an optional sign,
\* one or more digits; anything else raises ValueError.
int(s) ==
  LET t == strip(s)
      signed == t # <<>> /\ Head(t) \in {"+", "-"}
      ds == IF signed THEN Tail(t) ELSE t
  IN IF ds # <<>> /\ \A i \in 1..Len(ds) : ds[i] \in Digits
     THEN [ok |-> TRUE, val |-> IF signed /\ Head(t) = "-" THEN 0 - DecimalVal(ds) ELSE DecimalVal(ds)]
     ELSE [ok |-> FALSE, val |-> 0]

\* options[i] with Python's indexing (a negative index counts from the end)
PyIndex(options, i) == IF i >= 0 THEN options[i + 1] ELSE options[Len(options) + i + 1]

\* One pass of the `while True` loop of a numbered menu on one typed line:
\* the index selected, or 0 when the loop prints a message and asks again.
menu_choice_from_zero(typed, options) ==
  LET r == int(get_user_input(typed))
  IN IF r.ok /\ 0 <= r.val /\ r.val <= Len(options) THEN r.val - 1 ELSE 0 - Len(options) - 1

menu_choice(typed, options) ==
  LET r == int(get_user_input(typed))
  IN IF r.ok /\ 1 <= r.val /\ r.val <= Len(options) THEN r.val - 1 ELSE 0 - Len(options) - 1

Reprompt(options, idx) == idx = 0 - Len(options) - 1

\* what the operator can type at a path prompt (already stripped)
TypedPaths == {"proj", "proj/pkg", "proj/sub", "proj/a.py", "nope"}

\* what the operator can type at the d/f prompt
TypedChoices == {"d", "D", "f", "F", "x", ""}

\* str.lower() on the typed choices
lower(c) == CASE c = "D" -> "d" [] c = "F" -> "f" [] OTHER -> c

\* the comma-separated file lists the operator can type, after split(",")
TypedFileLists ==
  {<<"">>, <<"nope">>, <<"proj">>, <<"proj/a.py">>, <<"proj/a.py", "nope">>,
   <<"proj/blank.txt", "proj/a.py">>, <<"proj/.git/config">>}

\* free-text answers to a parameter question (already stripped)
ParamValues == {<<>>, <<"NullPointerException">>, <<"{error}">>}

\* list or None, as returned by ask_directory_or_files
NoList == [none |-> TRUE, list |-> <<>>]
List(l) == [none |-> FALSE, list |-> l]

\* valid_files = [file.strip() for file in files if os.path.isfile(file.strip())]
RECURSIVE valid_files(_)
valid_files(files) ==
  IF files = <<>> THEN <<>>
  ELSE (IF isfile(Head(files)) THEN <<Head(files)>> ELSE <<>>) \o valid_files(Tail(files))

\* ask_directory_or_files on one session of answers: choice is the answer to
\* the d/f question, directory and files the answers to the follow-up
\* question, rev the enumeration order of the filesystem.
ask_directory_or_files(choice, directory, files, rev) ==
  IF lower(choice) = "d"
  THEN (IF isdir(directory) THEN List(get_files_from_directory(directory, rev)) ELSE NoList)
  ELSE IF lower(choice) = "f" THEN List(valid_files(files))
  ELSE NoList

\* ask_prompt_parameters: the mappings it can return for a template, one
\* typed value per declared parameter
ask_prompt_parameters(prompt_template) ==
  LET parameters == PROMPT_PARAMETERS(prompt_template)
  IN [{parameters[i] : i \in 1..Len(parameters)} -> ParamValues]

\* ----------------------------------------------------------------- gateway
DUMMY_RESPONSE == <<"This is a dummy response for testing purposes.">>

API_ERROR_MESSAGE == "An error occurred while communicating with the OpenAI API."

NoErr == [type |-> "", msg |-> ""]
Err(type, msg) == [type |-> type, msg |-> msg]

prepare_messages_swapped(system_content, user_content) ==
  <<[role |-> "system", content |-> user_content],
    [role |-> "user", content |-> system_content]>>

prepare_messages(system_content, user_content) ==
  <<[role |-> "system", content |-> system_content],
    [role |-> "user", content |-> user_content]>>

\* What the remote endpoint can do with one request: fail (timeout, auth),
\* answer without choices, answer with a null content, answer with content.
Contents == TextsUpTo({" ", "X"}, MaxContentLen)

TransportOutcomes ==
  {[kind |-> k, content |-> <<>>] : k \in {"raise", "no_choices", "null_content"}}
  \cup {[kind |-> "ok", content |-> c] : c \in Contents}

\* call_openai_api: the returned string or the raised error, with the number
\* of requests sent and of uses of the client object.
Outcome(result, err, requests, uses) == [result |-> result, err |-> err, requests |-> requests, uses |-> uses]

call_openai_api_retrying(use_real, cl, outcome) ==
  IF use_real
  THEN IF cl = None THEN Outcome(<<>>, Err("ValueError", API_ERROR_MESSAGE), 0, 1)
       ELSE IF outcome.kind = "ok" THEN Outcome(strip(outcome.content), NoErr, 1, 1)
       ELSE Outcome(<<>>, Err("ValueError", API_ERROR_MESSAGE), 2, 2)
  ELSE Outcome(DUMMY_RESPONSE, NoErr, 0, 0)

call_openai_api_verbatim(use_real, cl, outcome) ==
  IF use_real
  THEN IF cl = None THEN Outcome(<<>>, Err("ValueError", API_ERROR_MESSAGE), 0, 1)
       ELSE IF outcome.kind = "ok" THEN Outcome(outcome.content, NoErr, 1, 1)
       ELSE Outcome(<<>>, Err("ValueError", API_ERROR_MESSAGE), 1, 1)
  ELSE Outcome(DUMMY_RESPONSE, NoErr, 0, 0)

call_openai_api_always_live(use_real, cl, outcome) ==
  IF cl = None THEN Outcome(<<>>, Err("ValueError", API_ERROR_MESSAGE), 0, 1)
  ELSE IF outcome.kind = "ok" THEN Outcome(strip(outcome.content), NoErr, 1, 1)
  ELSE Outcome(<<>>, Err("ValueError", API_ERROR_MESSAGE), 1, 1)

call_openai_api(use_real, cl, outcome) ==
  IF use_real
  THEN \* attribute access on None raises inside the try block
       IF cl = None THEN Outcome(<<>>, Err("ValueError", API_ERROR_MESSAGE), 0, 1)
       ELSE IF outcome.kind = "ok" THEN Outcome(strip(outcome.content), NoErr, 1, 1)
       ELSE Outcome(<<>>, Err("ValueError", API_ERROR_MESSAGE), 1, 1)
  ELSE Outcome(DUMMY_RESPONSE, NoErr, 0, 0)

\* what open(file_name, "w") / file.write(result) can do
WriteOutcomes == {"written", "open_fails", "write_fails"}

\* the message of the OSError the operating system raises
OS_ERROR_MESSAGE == "[Errno 13] Permission denied"

\* ------------------------------------------------------------------- state
VARIABLES
  entry,              \* the function that was called: main, build_final_prompt, process_and_analyze_file
  pc,                 \* the statement the run is at; "returned" / "raised" at the end
  use_real,           \* config.USE_REAL_OPENAI_API
  line,               \* the last line the operator typed at a numbered menu
  retries,            \* how often the current question was asked again
  reprompts,          \* how often any question was asked again in this run
  role,               \* main: role
  project_structure,  \* main: project_structure
  files,              \* main: files
  file_contents,      \* main: file_contents
  scanned,            \* the directory walked in directory mode, "" otherwise
  enum_rev,           \* the order the filesystem enumerated its entries in
  file_data,          \* get_all_file_contents: the records of extract_file_content
  warned,             \* the files logged as "Could not read file"
  assistance_prompt,  \* main: assistance_prompt
  additional_params,  \* main: additional_params
  built,              \* what build_final_prompt returned or raised
  prompt_file,        \* final_prompt.md
  client,             \* process_and_analyze_file: client
  system_content,     \* process_and_analyze_file: system_content
  user_content,       \* process_and_analyze_file: user_content
  messages,           \* process_and_analyze_file: messages
  transport,          \* what the remote endpoint did with the request
  result,             \* process_and_analyze_file: result
  err,                \* the exception that ended the run
  raised_in,          \* the statement that raised it
  requests,           \* chat-completion requests sent to the remote endpoint
  client_uses,        \* uses of the client object
  pre_cost,           \* the pre-call estimates have been logged
  post_cost,          \* the post-call estimates have been logged
  response_file       \* openai_response_<timestamp>.txt

driver_vars == <<line, retries, reprompts, role, project_structure, files, file_contents, assistance_prompt, additional_params>>
collector_vars == <<scanned, enum_rev, file_data, warned>>
assembler_vars == <<built, prompt_file>>
gateway_args == <<client, system_content, user_content>>
gateway_vars == <<messages, transport, result, requests, client_uses, pre_cost, post_cost, response_file>>
error_vars == <<err, raised_in>>

vars == <<entry, pc, use_real, driver_vars, collector_vars, assembler_vars, gateway_args, gateway_vars, error_vars>>

NoFile == [exists |-> FALSE, text |-> <<>>]
NoTransport == [kind |-> "none", content |-> <<>>]
NoParams == [k \in {} |-> <<>>]

Init ==
  /\ entry = ""
  /\ pc = "idle"
  /\ use_real \in BOOLEAN
  /\ line = <<>>
  /\ retries = 0
  /\ reprompts = 0
  /\ role = ""
  /\ project_structure = <<>>
  /\ files = NoList
  /\ file_contents = <<>>
  /\ scanned = ""
  /\ enum_rev = FALSE
  /\ file_data = <<>>
  /\ warned = <<>>
  /\ assistance_prompt = <<>>
  /\ additional_params = NoParams
  /\ built = NotBuilt("")
  /\ prompt_file = NoFile
  /\ client = None
  /\ system_content = <<>>
  /\ user_content = <<>>
  /\ messages = <<>>
  /\ transport = NoTransport
  /\ result = <<>>
  /\ err = NoErr
  /\ raised_in = ""
  /\ requests = 0
  /\ client_uses = 0
  /\ pre_cost = FALSE
  /\ post_cost = FALSE
  /\ response_file = NoFile

Raise(e, where) == pc' = "raised" /\ err' = e /\ raised_in' = where

\* ------------------------------------------------------------------ driver
\* main() is started
Main ==
  /\ pc = "idle"
  /\ entry' = "main"
  /\ pc' = "ask_assistant_role"
  /\ UNCHANGED <<use_real, collector_vars, driver_vars, assembler_vars, gateway_args, gateway_vars, error_vars>>

\* ask_assistant_role: one pass of its loop
AskAssistantRole ==
  /\ pc = "ask_assistant_role"
  /\ \E typed \in MenuLines :
       LET idx == menu_choice(typed, ROLES)
       IN /\ line' = typed
          /\ IF Reprompt(ROLES, idx)
             THEN /\ retries < MaxRetries
                  /\ retries' = retries + 1
                  /\ reprompts' = reprompts + 1
                  /\ UNCHANGED <<pc, role>>
             ELSE /\ role' = PyIndex(ROLES, idx)
                  /\ retries' = 0
                  /\ UNCHANGED reprompts
                  /\ pc' = "ask_project_directory"
  /\ UNCHANGED <<entry, use_real, collector_vars, project_structure, files, file_contents, assistance_prompt, additional_params>>
  /\ UNCHANGED <<assembler_vars, gateway_args, gateway_vars, error_vars>>

\* ask_project_directory: one pass of its loop
AskProjectDirectory ==
  /\ pc = "ask_project_directory"
  /\ \E directory \in TypedPaths :
       IF isdir(directory)
       THEN /\ project_structure' = JoinLines(get_tree_structure(directory))
            /\ retries' = 0
            /\ pc' = "ask_directory_or_files"
            /\ UNCHANGED reprompts
       ELSE /\ retries < MaxRetries
            /\ retries' = retries + 1
            /\ reprompts' = reprompts + 1
            /\ UNCHANGED <<pc, project_structure>>
  /\ UNCHANGED <<entry, use_real, collector_vars, line, role, files, file_contents, assistance_prompt, additional_params>>
  /\ UNCHANGED <<assembler_vars, gateway_args, gateway_vars, error_vars>>

\* ask_directory_or_files: the d/f question and its follow-up question
AskDirectoryOrFiles ==
  /\ pc = "ask_directory_or_files"
  /\ \E choice \in TypedChoices, directory \in TypedPaths, typed \in TypedFileLists, rev \in BOOLEAN :
       LET walked == lower(choice) = "d" /\ isdir(directory)
       IN /\ files' = ask_directory_or_files(choice, directory, typed, rev)
          /\ scanned' = IF walked THEN directory ELSE ""
          /\ enum_rev' = (walked /\ rev)
  /\ pc' = "get_all_file_contents"
  /\ UNCHANGED <<entry, use_real, line, retries, reprompts, role, project_structure, file_contents, assistance_prompt, additional_params>>
  /\ UNCHANGED <<file_data, warned, assembler_vars, gateway_args, gateway_vars, error_vars>>

\* main: file_contents = get_all_file_contents(files); iterating over None
\* raises TypeError
GetAllFileContents ==
  /\ pc = "get_all_file_contents"
  /\ IF files.none
     THEN /\ Raise(Err("TypeError", "'NoneType' object is not iterable"), "get_all_file_contents")
          /\ UNCHANGED <<file_contents, file_data, warned>>
     ELSE /\ file_data' = extract_file_content(files.list)
          /\ warned' = read_warnings(files.list)
          /\ file_contents' = render_file_contents(file_data')
          /\ pc' = "ask_assistance_type"
          /\ UNCHANGED error_vars
  /\ UNCHANGED <<entry, use_real, line, retries, reprompts, role, project_structure, files, assistance_prompt, additional_params>>
  /\ UNCHANGED <<scanned, enum_rev, assembler_vars, gateway_args, gateway_vars>>

\* ask_assistance_type: one pass of its loop
AskAssistanceType ==
  /\ pc = "ask_assistance_type"
  /\ \E typed \in MenuLines :
       LET idx == menu_choice(typed, ASSISTANCE_KEYS)
       IN /\ line' = typed
          /\ IF Reprompt(ASSISTANCE_KEYS, idx)
             THEN /\ retries < MaxRetries
                  /\ retries' = retries + 1
                  /\ reprompts' = reprompts + 1
                  /\ UNCHANGED <<pc, assistance_prompt>>
             ELSE /\ assistance_prompt' = ASSISTANCE_TYPES[PyIndex(ASSISTANCE_KEYS, idx)]
                  /\ retries' = 0
                  /\ UNCHANGED reprompts
                  /\ pc' = "ask_prompt_parameters"
  /\ UNCHANGED <<entry, use_real, collector_vars, role, project_structure, files, file_contents, additional_params>>
  /\ UNCHANGED <<assembler_vars, gateway_args, gateway_vars, error_vars>>

\* ask_prompt_parameters: one question per declared parameter
AskPromptParameters ==
  /\ pc = "ask_prompt_parameters"
  /\ additional_params' \in ask_prompt_parameters(assistance_prompt)
  /\ pc' = "build_final_prompt"
  /\ UNCHANGED <<entry, use_real, collector_vars, line, retries, reprompts, role, project_structure, files, file_contents, assistance_prompt>>
  /\ UNCHANGED <<assembler_vars, gateway_args, gateway_vars, error_vars>>

\* main, from the call of build_final_prompt to the call of
\* process_and_analyze_file(system_contex, user_context): the prompt file is
\* written and the gateway entered with the default client (None)
BuildAndSavePrompt ==
  /\ pc = "build_final_prompt"
  /\ entry = "main"
  /\ built' = build_final_prompt(role, project_structure, file_contents, assistance_prompt, additional_params)
  /\ IF built'.err # ""
     THEN /\ Raise(Err(built'.err, "ROLE_PROMPT"), "build_final_prompt")
          /\ UNCHANGED <<prompt_file, gateway_args>>
     ELSE /\ prompt_file' = [exists |-> TRUE, text |-> built'.system \o built'.user]
          /\ system_content' = built'.system
          /\ user_content' = built'.user
          /\ client' = None
          /\ pc' = "prepare_messages"
          /\ UNCHANGED error_vars
  /\ UNCHANGED <<entry, use_real, collector_vars, driver_vars, gateway_vars>>

\* --------------------------------------------------------------- assembler
RoleSet == {ROLES[i] : i \in 1..Len(ROLES)}
TreeTexts == {<<>>, JoinLines(get_tree_structure("proj/sub"))}
FileTexts == {<<>>, get_all_file_contents(<<"proj/a.py">>)}
ParamKeys == {"feature_description", "error"}
ParamMappings == UNION {[K -> ParamValues] : K \in SUBSET ParamKeys}

\* build_final_prompt is called on its own
CallBuildFinalPrompt ==
  /\ pc = "idle"
  /\ entry' = "build_final_prompt"
  /\ \E r \in RoleSet, t \in TreeTexts, f \in FileTexts, tpl \in Templates, m \in ParamMappings :
       /\ role' = r
       /\ project_structure' = t
       /\ file_contents' = f
       /\ assistance_prompt' = tpl
       /\ additional_params' = m
       /\ built' = build_final_prompt(r, t, f, tpl, m)
  /\ IF built'.err # ""
     THEN Raise(Err(built'.err, ""), "build_final_prompt")
     ELSE pc' = "returned" /\ UNCHANGED error_vars
  /\ UNCHANGED <<use_real, collector_vars, line, retries, reprompts, files, prompt_file, gateway_args, gateway_vars>>

\* ----------------------------------------------------------------- gateway
Clients == {None, "client"}

\* process_and_analyze_file is called on its own
CallProcessAndAnalyzeFile ==
  /\ pc = "idle"
  /\ entry' = "process_and_analyze_file"
  /\ system_content' \in Contents
  /\ user_content' \in Contents
  /\ client' \in Clients
  /\ pc' = "prepare_messages"
  /\ UNCHANGED <<use_real, collector_vars, driver_vars, assembler_vars, gateway_vars, error_vars>>

\* process_and_analyze_file: prepare_messages and the pre-call estimates
PrepareMessages ==
  /\ pc = "prepare_messages"
  /\ messages' = prepare_messages(system_content, user_content)
  /\ pre_cost' = TRUE
  /\ pc' = "call_openai_api"
  /\ UNCHANGED <<entry, use_real, collector_vars, driver_vars, assembler_vars, gateway_args, error_vars>>
  /\ UNCHANGED <<transport, result, requests, client_uses, post_cost, response_file>>

\* process_and_analyze_file: result = call_openai_api(client, messages)
CallOpenAIApi ==
  /\ pc = "call_openai_api"
  /\ \E o \in TransportOutcomes :
       LET r == call_openai_api(use_real, client, o)
       IN /\ transport' = IF r.requests > 0 THEN o ELSE NoTransport
          /\ requests' = requests + r.requests
          /\ client_uses' = client_uses + r.uses
          /\ IF r.err # NoErr
             THEN Raise(r.err, "call_openai_api") /\ UNCHANGED result
             ELSE result' = r.result /\ pc' = "save_response" /\ UNCHANGED error_vars
  /\ UNCHANGED <<entry, use_real, collector_vars, driver_vars, assembler_vars, gateway_args>>
  /\ UNCHANGED <<messages, pre_cost, post_cost, response_file>>

\* process_and_analyze_file: the post-call estimates, then the response file
SaveResponse ==
  /\ pc = "save_response"
  /\ post_cost' = TRUE
  /\ \E w \in WriteOutcomes :
       IF w = "written"
       THEN /\ response_file' = [exists |-> TRUE, text |-> result]
            /\ pc' = "returned"
            /\ UNCHANGED error_vars
       ELSE /\ response_file' = [exists |-> (w = "write_fails"), text |-> <<>>]
            /\ Raise(Err("OSError", OS_ERROR_MESSAGE), "save_response")
  /\ UNCHANGED <<entry, use_real, collector_vars, driver_vars, assembler_vars, gateway_args>>
  /\ UNCHANGED <<messages, transport, result, requests, client_uses, pre_cost>>

Next ==
  \/ Main
  \/ AskAssistantRole
  \/ AskProjectDirectory
  \/ AskDirectoryOrFiles
  \/ GetAllFileContents
  \/ AskAssistanceType
  \/ AskPromptParameters
  \/ BuildAndSavePrompt
  \/ CallBuildFinalPrompt
  \/ CallProcessAndAnalyzeFile
  \/ PrepareMessages
  \/ CallOpenAIApi
  \/ SaveResponse

Spec == Init /\ [][Next]_vars

\* ------------------------------------------------------------------ claims
\* call_openai_api has run in this run
ApiCalled ==
  \/ pc \in {"save_response", "returned"} /\ entry # "build_final_prompt"
  \/ pc = "raised" /\ raised_in \in {"call_openai_api", "save_response"}

TransportFailed == transport.kind \in {"raise", "no_choices", "null_content"}

\* C1: in live mode a failed remote call ends call_openai_api with the one
\* uniform ValueError, and no invocation sends more than one request.
C1_UniformErrorNoRetry ==
  /\ requests <= 1
  /\ (use_real /\ TransportFailed) =>
       /\ pc = "raised"
       /\ raised_in = "call_openai_api"
       /\ err = Err("ValueError", API_ERROR_MESSAGE)
       /\ requests = 1
       /\ ~response_file.exists

C1_Witness ==
  /\ use_real
  /\ transport.kind = "raise"
  /\ pc = "raised"
  /\ err.type = "ValueError"
  /\ requests = 1

\* C2 as stated: in live mode the gateway returns the content X of the
\* remote answer unmodified.
C2_ReturnsContentUnmodified ==
  (use_real /\ transport.kind = "ok" /\ ApiCalled) => result = transport.content

\* r is x without its leading and trailing whitespace
IsTrimOf(r, x) ==
  \E i \in 0..Len(x), j \in 0..Len(x) :
    /\ i + j <= Len(x)
    /\ r = SubSeq(x, i + 1, Len(x) - j)
    /\ \A k \in 1..i : x[k] \in WS
    /\ \A k \in (Len(x) - j + 1)..Len(x) : x[k] \in WS
    /\ r # <<>> => (r[1] \notin WS /\ r[Len(r)] \notin WS)

\* C2 amended: in live mode the gateway returns the content X of the remote
\* answer with its leading and trailing whitespace removed, and nothing else
\* changed.
C2_ReturnsContentStripped ==
  (use_real /\ transport.kind = "ok" /\ ApiCalled) =>
    /\ IsTrimOf(result, transport.content)
    /\ raised_in # "call_openai_api"

C2_Witness ==
  /\ use_real
  /\ transport.kind = "ok"
  /\ transport.content = <<" ", "X">>
  /\ pc = "returned"
  /\ result = <<"X">>

\* C3: in dry-run mode the client is never used and no request is sent,
\* whatever the messages and the client (None included), and the call
\* returns the canned response.
C3_DryRunNeverTouchesClient ==
  ~use_real =>
    /\ requests = 0
    /\ client_uses = 0
    /\ transport = NoTransport
    /\ raised_in # "call_openai_api"
    /\ ApiCalled => result = DUMMY_RESPONSE

C3_Witness ==
  /\ ~use_real
  /\ client = None
  /\ user_content # <<>>
  /\ pc = "returned"
  /\ result = DUMMY_RESPONSE

\* C4 as stated: in live mode a run that enters the gateway the way the
\* driver does (no client argument) sends exactly one chat-completion
\* request.
C4_ExactlyOneRequestPerRun ==
  (use_real /\ entry \in {"main", "process_and_analyze_file"} /\ client = None /\ ApiCalled)
    => requests = 1

\* the message the tests expect of a failed save (tests, line 195)
SAVE_ERROR_MESSAGE == "An error occurred while saving the response to a file."

\* C5 as stated: a failure to write the response file surfaces as the
\* distinct persistence error with its own message.
C5_PersistenceFailureIsDistinctKind ==
  raised_in = "save_response" =>
    /\ pc = "raised"
    /\ err.type = "OSError"
    /\ err.msg = SAVE_ERROR_MESSAGE

\* the number a typed line denotes when it is a decimal number in 1..n, else 0
Chosen(typed, n) ==
  LET r == int(typed) IN IF r.ok /\ r.val \in 1..n THEN r.val ELSE 0

\* C6: a numbered menu asks again on every line that is not a number in
\* 1..N and changes nothing; on a number k in 1..N it returns the k-th option.
C6_MenuRepromptsUntilValid ==
  [][/\ pc = "ask_assistant_role" =>
          IF Chosen(line', Len(ROLES)) = 0
          THEN pc' = "ask_assistant_role" /\ role' = role /\ err' = NoErr
          ELSE pc' = "ask_project_directory" /\ role' = ROLES[Chosen(line', Len(ROLES))]
     /\ pc = "ask_assistance_type" =>
          IF Chosen(line', Len(ASSISTANCE_KEYS)) = 0
          THEN pc' = "ask_assistance_type" /\ assistance_prompt' = assistance_prompt /\ err' = NoErr
          ELSE /\ pc' = "ask_prompt_parameters"
               /\ assistance_prompt' = ASSISTANCE_TYPES[ASSISTANCE_KEYS[Chosen(line', Len(ASSISTANCE_KEYS))]]
    ]_vars

C6_Witness ==
  /\ pc = "ask_project_directory"
  /\ reprompts = MaxRetries
  /\ line = <<"4">>
  /\ role = "Python Developer"

\* the driver is past the file-selection step
PastFileSelection ==
  /\ entry = "main"
  /\ pc \notin {"idle", "ask_assistant_role", "ask_project_directory", "ask_directory_or_files"}

\* C7 as stated: the file-selection step never hands an absent or empty
\* selection on, and an invalid answer does not abort the session.
C7_SelectionNeverAbsentOrEmpty ==
  PastFileSelection =>
    /\ ~files.none
    /\ files.list # <<>>
    /\ raised_in # "get_all_file_contents"

\* the parameters a template declares: its placeholders besides the two
\* standard sections
Declared(tpl) == Placeholders(tpl) \ {"STANDARD_INFORMATION", "STANDARD_NOTES"}

\* text t occurs in text u
Occurs(t, u) == \E i \in 0..(Len(u) - Len(t)) : SubSeq(u, i + 1, i + Len(t)) = t

BuildCalled ==
  \/ entry = "build_final_prompt" /\ pc # "idle"
  \/ entry = "main" /\ (raised_in = "build_final_prompt" \/ pc \in {"prepare_messages", "call_openai_api", "save_response", "returned"})

\* C8 as stated: with every required parameter supplied, build_final_prompt
\* returns a system message with the role, the tree, the file contents and
\* the usage notes, and a user message with every parameter value.
C8_BuildsSystemAndUserMessage ==
  (BuildCalled /\ Declared(assistance_prompt) \subseteq DOMAIN additional_params) =>
    /\ built.err = ""
    /\ Occurs(<<role>>, built.system)
    /\ Occurs(project_structure, built.system)
    /\ Occurs(file_contents, built.system)
    /\ Occurs(STANDARD_NOTES, built.system)
    /\ \A k \in Declared(assistance_prompt) : Occurs(additional_params[k], built.user)

\* C9: build_final_prompt raises and returns no messages whenever a declared
\* parameter is missing from the mapping, and the mapping ask_prompt_parameters
\* builds has every declared parameter.
C9_MissingParameterIsFatal ==
  /\ (BuildCalled /\ ~(Declared(assistance_prompt) \subseteq DOMAIN additional_params)) =>
       /\ pc = "raised"
       /\ raised_in = "build_final_prompt"
       /\ err.type = "KeyError"
       /\ built.err = "KeyError"
       /\ built.system = <<>>
       /\ built.user = <<>>
       /\ ~prompt_file.exists
  /\ (entry = "main" /\ (pc = "build_final_prompt" \/ BuildCalled)) =>
       Declared(assistance_prompt) \subseteq DOMAIN additional_params

C9_Witness ==
  /\ entry = "build_final_prompt"
  /\ assistance_prompt = DEBUGGING_PROMPT
  /\ "error" \notin DOMAIN additional_params
  /\ pc = "raised"
  /\ err.type = "KeyError"

\* C10: prepare_messages returns two entries, system then user, with the two
\* inputs as their contents, the empty string included.
C10_PrepareMessagesVerbatim ==
  pre_cost =>
    /\ Len(messages) = 2
    /\ messages[1].role = "system"
    /\ messages[1].content = system_content
    /\ messages[2].role = "user"
    /\ messages[2].content = user_content

C10_Witness ==
  /\ pre_cost
  /\ Len(messages) = 2
  /\ system_content = <<>>
  /\ user_content = <<" ", "X">>
  /\ messages[2].content = <<" ", "X">>

\* ------------------------------------------------- claims on the collector
\* the driver has run get_all_file_contents to its end
CollectorDone ==
  /\ entry = "main"
  /\ \/ pc \in {"ask_assistance_type", "ask_prompt_parameters", "build_final_prompt"}
     \/ pc = "raised" /\ raised_in = "build_final_prompt"

RecordNames == [i \in 1..Len(file_data) |-> file_data[i].file_name]

\* the base name of p is an entry of the ignore list
NameIgnored(p) ==
  \E i \in 1..Len(IGNORED_FILE_PATTERNS) : FS[p].toks = IGNORED_FILE_PATTERNS[i]

\* p, or a directory between the scanned root and p, has an ignored name
RECURSIVE UnderIgnored(_, _)
UnderIgnored(p, root) ==
  /\ p \in FSPaths
  /\ p # root
  /\ (NameIgnored(p) \/ UnderIgnored(FS[p].parent, root))

\* C11 as stated: in directory mode no FileRecord is produced for a file
\* whose name is on the ignore list, nor for any file at any depth under a
\* directory whose name is on the ignore list.
C11_IgnoredNamesSkippedWithDescendants ==
  (CollectorDone /\ scanned # "") =>
    \A i \in 1..Len(file_data) : ~UnderIgnored(file_data[i].file_name, scanned)

\* p lies, at any depth, inside a directory with one of the names
RECURSIVE InsideNamed(_, _)
InsideNamed(p, names) ==
  /\ FS[p].parent \in FSPaths
  /\ (FS[FS[p].parent].name \in names \/ InsideNamed(FS[p].parent, names))

\* C12: a scan yields no FileRecord for a file inside a .git or __pycache__
\* directory, whatever the nesting depth.
C12_NoRecordsFromGitOrPycache ==
  (CollectorDone /\ scanned # "") =>
    \A i \in 1..Len(file_data) : ~InsideNamed(file_data[i].file_name, {".git", "__pycache__"})

C12_Witness ==
  /\ CollectorDone
  /\ scanned = "proj"
  /\ Contains(files.list, "proj/.git/hooks/pre.sh")
  /\ Contains(files.list, "proj/pkg/__pycache__/mod.txt")
  /\ Contains(RecordNames, "proj/a.py")

\* C13 as stated: the sequence a scan returns does not depend on the order
\* in which the filesystem enumerates the entries of a directory.
C13_OrderIndependentOfEnumeration ==
  (entry = "main" /\ scanned # "") =>
    \A r \in BOOLEAN : files.list = get_files_from_directory(scanned, r)

\* the driver is past the tree-rendering step
TreeRendered ==
  /\ entry = "main"
  /\ pc \notin {"idle", "ask_assistant_role", "ask_project_directory"}

\* the lines of a text
RECURSIVE SplitLines(_)
SplitLines(t) ==
  IF ~Contains(t, "\n") THEN <<t>>
  ELSE LET i == CHOOSE k \in 1..Len(t) : t[k] = "\n" /\ \A m \in 1..(k - 1) : t[m] # "\n"
       IN <<SubSeq(t, 1, i - 1)>> \o SplitLines(SubSeq(t, i + 1, Len(t)))

Tee == "|-- "
Corner == "\\-- "

\* the entry lines of the rendered tree: all but the fences and the root line
TreeBody ==
  LET lines == SplitLines(project_structure)
  IN SubSeq(lines, 3, Len(lines) - 1)

ConnectorAt(l) == CHOOSE k \in 1..Len(l) : l[k] \in {Tee, Corner}
Depth(l) == ConnectorAt(l) - 1
EntryName(l) == l[ConnectorAt(l) + 1]
NameRank(n) == FS[CHOOSE p \in FSPaths : FS[p].name = n].rank

\* line j is the next entry of the directory that line i is an entry of
NextSibling(body, i, j) ==
  /\ j > i
  /\ Depth(body[j]) = Depth(body[i])
  /\ \A k \in (i + 1)..(j - 1) : Depth(body[k]) > Depth(body[i])

\* C14 as stated: at each level the entries are in lexicographic order, the
\* contents of a subdirectory are indented one level beneath it, the last
\* entry shown uses the closing connector and every earlier one the tee.
C14_TreeOrderAndConnectors ==
  TreeRendered =>
    LET body == TreeBody
    IN \A i \in 1..Len(body) :
         /\ \A j \in 1..Len(body) :
              NextSibling(body, i, j) => NameRank(EntryName(body[i])) < NameRank(EntryName(body[j]))
         /\ body[i][ConnectorAt(body[i])] =
              IF \E j \in 1..Len(body) : NextSibling(body, i, j) THEN Tee ELSE Corner
         /\ i > 1 =>
              /\ Depth(body[i]) <= Depth(body[i - 1]) + 1
              /\ Depth(body[i]) = Depth(body[i - 1]) + 1 => body[i - 1][Len(body[i - 1])] = "/"

\* what the code skips without reading
SkippedUnread(p) == should_ignore_file(p) \/ is_in_ignored_directory(p)
Blank(p) == \A k \in 1..Len(FS[p].content) : FS[p].content[k] \in WS
Eligible(p) == ~SkippedUnread(p) /\ FS[p].readable /\ ~Blank(p)
Unreadable(p) == ~SkippedUnread(p) /\ ~FS[p].readable

\* C15: an unreadable file is skipped with a warning and does not abort the
\* scan; every readable, non-ignored, non-empty file of the list yields its
\* record, in list order.
C15_BestEffortReading ==
  /\ (CollectorDone /\ ~files.none) =>
       /\ RecordNames = SelectSeq(files.list, Eligible)
       /\ warned = SelectSeq(files.list, Unreadable)
  /\ (entry = "main" /\ raised_in = "get_all_file_contents") => files.none

C15_Witness ==
  /\ CollectorDone
  /\ scanned = "proj"
  /\ ~enum_rev
  /\ warned = <<"proj/bin.dat">>
  /\ RecordNames = <<"proj/a.py", "proj/.ipynb_checkpoints/nb.py", "proj/pkg/Makefile", "proj/sub/c.py">>

\* C16: every FileRecord has non-empty content; a file that is empty after
\* trimming yields no record and does not appear in the concatenated contents.
C16_NoEmptyRecords ==
  CollectorDone =>
    /\ \A i \in 1..Len(file_data) :
         /\ file_data[i].content # <<>>
         /\ ~Blank(file_data[i].file_name)
    /\ \A k \in 1..Len(files.list) :
         Blank(files.list[k]) =>
           /\ ~Contains(RecordNames, files.list[k])
           /\ ~Contains(file_contents, files.list[k])

C16_Witness ==
  /\ CollectorDone
  /\ files.list = <<"proj/blank.txt", "proj/a.py">>
  /\ RecordNames = <<"proj/a.py">>
  /\ Contains(file_contents, "proj/a.py")

====
